---- MODULE Spec2Model ----
(***************************************************************************)
(* Model of the VAE training driver of src/src/cvn/VAE/train.py: the       *)
(* Metric buffer, the AvgMeter, and the Trainer state machine (compile,    *)
(* fit, train_one_epoch / train_step, validate, checkpoint, resume).       *)
(*                                                                         *)
(* Tensors are abstracted: the encoder/decoder weights are the number of   *)
(* optimizer steps that produced them, the optimizer state is its step     *)
(* count, the scheduler state is its last_epoch counter, and a gradient    *)
(* is the index of the batch whose backward pass produced it.              *)
(* Python indices are kept 0-based: buffers are functions over 0..n-1.     *)
(***************************************************************************)
EXTENDS Integers, Sequences, FiniteSets, TLC

\* ------------------------------------------------------------------------
\* Bounds of the model
\* ------------------------------------------------------------------------
MaxEpochs == 3
MaxTrainSize == 2
MaxValSize == 2
MaxBatchSize == 2
MaxGas == 3
MaxRuns == 2
ResumeMaxSize == 1
GaBatches == 10
GaMaxGas == 4
MaxAdds == 3
MaxSide == 16
MaxZch == 4
MaxMean == 2
MaxRawLogVar == 200
MaxElems == 2

\* ------------------------------------------------------------------------
\* Program constants
\* ------------------------------------------------------------------------
DefaultGas == 128
DefaultNumEpochs == 1
DefaultBatchSize == 1
PruneAge == 2
ClampMin == -30
ClampMax == 20
DefaultBeta == [n |-> 1, d |-> 4000]
FirstPrunedEpoch == 2

\* ------------------------------------------------------------------------
\* Floats: a value is the fraction n/d; 0/0 is numpy's nan ("unset").
\* ------------------------------------------------------------------------
Rat(n, d) == [n |-> n, d |-> d]
NaN == Rat(0, 0)
Zero == Rat(0, 1)

\* ------------------------------------------------------------------------
\* AvgMeter
\* ------------------------------------------------------------------------
\* AvgMeter(val): the constructor takes the first total, 0 by default
AvgMeterNew(val) == [total |-> val, count |-> 0]
AvgMeterInit == AvgMeterNew(0)
\* a reset that clears the total only
AvgMeterResetTotalOnly(m) == [total |-> 0, count |-> m.count]
AvgMeterReset(m) == [total |-> 0, count |-> 0]
AvgMeterAdd(m, other) == [total |-> m.total + other, count |-> m.count + 1]
AvgMeterAvg(m) == IF m.count > 0 THEN Rat(m.total, m.count) ELSE Zero

\* ------------------------------------------------------------------------
\* Metric
\* ------------------------------------------------------------------------
BufferNames == {"mse_losses", "kl_divergence_losses"}
InstanceAttrs == {"num_epochs", "num_channels", "channels"} \cup BufferNames
MethodAttrs == {"load", "new_buffer", "channel_id", "state_dict", "plot"}

\* np.zeros((num_channels, num_epochs)) filled with nan
NewBuffer(num_channels, num_epochs) ==
    [c \in 0..(num_channels - 1) |-> [e \in 0..(num_epochs - 1) |-> NaN]]

DefaultChannelName(c) == IF c = 0 THEN "ch_0" ELSE IF c = 1 THEN "ch_1" ELSE "ch_n"

MetricNew(num_epochs, num_channels) ==
    [num_epochs |-> num_epochs,
     num_channels |-> num_channels,
     channels |-> [c \in 0..(num_channels - 1) |-> DefaultChannelName(c)],
     mse_losses |-> NewBuffer(num_channels, num_epochs),
     kl_divergence_losses |-> NewBuffer(num_channels, num_epochs)]

\* mutation: the channels keep their default names
MetricForFitUnnamed(num_epochs) == MetricNew(num_epochs, 2)

\* the instance fit() creates: Metric(num_epochs, 2) with channels renamed
TrainerChannels == (0 :> "train") @@ (1 :> "val")
MetricForFit(num_epochs) ==
    [MetricNew(num_epochs, 2) EXCEPT !.channels = TrainerChannels]

\* state_dict() returns the instance __dict__ as it is
MetricStateDict(m) == m

\* mutation: the requested horizon always wins, even when it is shorter
LoadHorizonNew(num_epochs, new_num_epochs) ==
    IF new_num_epochs # 0 THEN new_num_epochs ELSE num_epochs

\* the horizon Metric.load() allocates
LoadHorizon(num_epochs, new_num_epochs) ==
    IF new_num_epochs # 0 /\ new_num_epochs > num_epochs
    THEN new_num_epochs ELSE num_epochs

\* metric[i, :num_epochs] = values[i, :num_epochs] for every channel i
CopyBuffer(fresh, values, num_channels, num_epochs) ==
    [c \in DOMAIN fresh |->
        [e \in DOMAIN fresh[c] |->
            IF c < num_channels /\ e < num_epochs THEN values[c][e] ELSE fresh[c][e]]]

\* Metric.load(state_dict, new_num_epochs); new_num_epochs = 0 stands for
\* both None and 0, which the truth test of the code does not tell apart
MetricLoad(sd, new_num_epochs) ==
    LET n == LoadHorizon(sd.num_epochs, new_num_epochs)
        inst == MetricNew(n, sd.num_channels)
    IN [inst EXCEPT
          !.channels = sd.channels,
          !.mse_losses = CopyBuffer(inst.mse_losses, sd.mse_losses,
                                    inst.num_channels, sd.num_epochs),
          !.kl_divergence_losses =
              CopyBuffer(inst.kl_divergence_losses, sd.kl_divergence_losses,
                         inst.num_channels, sd.num_epochs)]

\* mutation: the lower bound of the guard is forgotten
EpochInRangeNoLower(epoch, num_epochs) == epoch < num_epochs

\* the guard of __setitem__: 0 <= epoch < self.num_epochs
EpochInRange(epoch, num_epochs) == 0 <= epoch /\ epoch < num_epochs

HasAttr(name) == name \in (InstanceAttrs \cup MethodAttrs)

ChannelKnown(m, name) == \E c \in DOMAIN m.channels : m.channels[c] = name
ChannelId(m, name) ==
    CHOOSE c \in DOMAIN m.channels :
        m.channels[c] = name /\ \A d \in DOMAIN m.channels :
                                   m.channels[d] = name => c <= d

\* numpy's buffer[chi, epoch] = value: a negative index counts from the end
NpIndex(i, n) == IF i < 0 THEN i + n ELSE i
NpIndexOk(i, n) == -n <= i /\ i < n

\* self.__dict__[m_name][chi, epoch] = value
\* result: the metric and the exception raised ("none" when none)
WriteCell(m, name, chi, epoch, value) ==
    IF name \in MethodAttrs THEN [metric |-> m, raised |-> "KeyError"]
    ELSE IF name \notin BufferNames THEN [metric |-> m, raised |-> "TypeError"]
    ELSE IF ~(NpIndexOk(chi, m.num_channels) /\ NpIndexOk(epoch, m.num_epochs))
         THEN [metric |-> m, raised |-> "IndexError"]
    ELSE LET c == NpIndex(chi, m.num_channels)
             e == NpIndex(epoch, m.num_epochs)
         IN [metric |-> [m EXCEPT ![name][c][e] = value], raised |-> "none"]

\* a dict write that passes over a channel it does not know
RECURSIVE WriteDictSkip(_, _, _, _, _)
WriteDictSkip(m, name, epoch, items, k) ==
    IF k > Len(items) THEN [metric |-> m, raised |-> "none"]
    ELSE IF ~ChannelKnown(m, items[k][1])
         THEN WriteDictSkip(m, name, epoch, items, k + 1)
    ELSE LET r == WriteCell(m, name, ChannelId(m, items[k][1]), epoch, items[k][2])
         IN IF r.raised # "none" THEN r
            ELSE WriteDictSkip(r.metric, name, epoch, items, k + 1)

\* for chn, m_value in m_values.items(): items is a sequence of <<chn, value>>
RECURSIVE WriteDict(_, _, _, _, _)
WriteDict(m, name, epoch, items, k) ==
    IF k > Len(items) THEN [metric |-> m, raised |-> "none"]
    ELSE IF ~ChannelKnown(m, items[k][1])
         THEN [metric |-> m, raised |-> "ValueError"]
    ELSE LET r == WriteCell(m, name, ChannelId(m, items[k][1]), epoch, items[k][2])
         IN IF r.raised # "none" THEN r
            ELSE WriteDict(r.metric, name, epoch, items, k + 1)

\* for i in range(self.num_channels): items is a sequence of <<"", value>>
RECURSIVE WriteList(_, _, _, _, _)
WriteList(m, name, epoch, items, i) ==
    IF i >= m.num_channels THEN [metric |-> m, raised |-> "none"]
    ELSE LET r == WriteCell(m, name, i, epoch, items[i + 1][2])
         IN IF r.raised # "none" THEN r
            ELSE WriteList(r.metric, name, epoch, items, i + 1)

\* the loop of __setitem__ over metric_values.items(): a sequence of entries
\* [name, kind ("dict" | "list" | "other"), items]
RECURSIVE WriteEntries(_, _, _, _)
WriteEntries(m, epoch, mv, k) ==
    IF k > Len(mv) THEN [metric |-> m, raised |-> "none"]
    ELSE LET ent == mv[k]
             r == IF ~HasAttr(ent.name) THEN [metric |-> m, raised |-> "none"]
                  ELSE IF ent.kind = "dict"
                       THEN WriteDict(m, ent.name, epoch, ent.items, 1)
                  ELSE IF ent.kind = "list"
                       THEN IF Len(ent.items) # m.num_channels
                            THEN [metric |-> m, raised |-> "ValueError"]
                            ELSE WriteList(m, ent.name, epoch, ent.items, 0)
                  ELSE [metric |-> m, raised |-> "none"]
         IN IF r.raised # "none" THEN r
            ELSE WriteEntries(r.metric, epoch, mv, k + 1)

\* Metric.__setitem__(epoch, metric_values)
MetricSetItem(m, epoch, mv) ==
    IF ~EpochInRange(epoch, m.num_epochs)
    THEN [metric |-> m, raised |-> "none"]
    ELSE WriteEntries(m, epoch, mv, 1)

\* ------------------------------------------------------------------------
\* Trainer: state
\* ------------------------------------------------------------------------
VARIABLES
    env,          \* the file system outside the checkpoint directory: dataset
                  \* directories and the number of images in each
    args,         \* the command line of the running process
    run,          \* number of the running process (1 = first launch)
    pc,           \* position of the process in main() / fit()
    error,        \* the exception that ended the process, "none" otherwise
    config,       \* self.config
    weights,      \* encoder and decoder parameters
    optimizer,    \* self.optimizer state
    lr_scheduler, \* self.lr_scheduler state
    bound,        \* attributes compile() has bound
    num_epochs,   \* self.num_epochs
    gas,          \* self.gas
    epoch,        \* self.epoch
    epoch_iter,   \* next value of range(self.epoch, self.num_epochs)
    gac,          \* self.gac
    metric,       \* self.metric
    recon_loss,   \* self.recon_loss
    kl_loss,      \* self.kl_loss
    loss_data,    \* loss_data of the running phase / returned by it
    index,        \* index of the next batch of the running phase
    grads,        \* batches whose gradient sits in the .grad buffers
    applied,      \* per batch of this epoch: optimizer steps that applied it
    step_log,     \* batch numbers (1-based) of this epoch's optimizer steps
    captured,     \* validation batch captured as references/predictions
    spg_calls,    \* calls of spg.generate in the running validation phase
    rendered,     \* batch rendered by the last spg.generate of this phase
    primary,      \* checkpoint_dir/checkpoint.pth
    stamped,      \* checkpoint_dir/checkpoint_<e>.pth
    ext,          \* a checkpoint file kept outside the checkpoint directory
    ckpt_writes,  \* completed checkpoint() calls of the running epoch
    final,        \* the vae_encoder / vae_decoder directories
    draws,        \* per batch of the running validation phase: whether
                  \* np.random.rand() was below 0.3
    phases,       \* history of the running fit(): its first epoch, then the
                  \* phases begun and finished, in order
    mcall         \* last direct call of the Metric interface and its outcome

vars == <<env, args, run, pc, error, config, weights, optimizer, lr_scheduler,
          bound, num_epochs, gas, epoch, epoch_iter, gac, metric, recon_loss,
          kl_loss, loss_data, index, grads, applied, step_log, captured,
          spg_calls, rendered, primary, stamped, ext, ckpt_writes, final,
          draws, phases, mcall>>

procVars == <<config, weights, optimizer, lr_scheduler, bound, num_epochs, gas,
              epoch, epoch_iter, gac, metric, recon_loss, kl_loss, loss_data,
              index, grads, applied, step_log, captured, spg_calls, rendered,
              ckpt_writes>>

fileVars == <<primary, stamped, ext, final>>

ImgChannels == {1, 3}
EpochIds == 0..(MaxEpochs - 1)

NoMetric == [none |-> TRUE]
NoCall == [op |-> "none"]
Absent == [state |-> "absent"]
Partial == [state |-> "partial"]
Complete(data) == [state |-> "complete", data |-> data]
IsFile(f) == f.state # "absent"

AllBound == {"train_loader", "val_loader", "mse_loss", "kl_div", "optimizer",
             "lr_scheduler", "spg"}

\* ------------------------------------------------------------------------
\* Data loaders: len(loader) and len(images) of batch i (0-based)
\* ------------------------------------------------------------------------
NumBatches(size, batch_size) == (size + batch_size - 1) \div batch_size
BatchLen(size, batch_size, i) ==
    IF size - i * batch_size < batch_size THEN size - i * batch_size
    ELSE batch_size

TrainLength == NumBatches(env.train_size, args.batch_size)
ValLength == NumBatches(env.val_size, args.batch_size)

\* abstraction of the forward pass: the two scalar losses of a batch
ReconLossItem(w) == (w % 2) + 1
KlLossItem(w) == 1

\* ------------------------------------------------------------------------
\* Initial state: a first launch with an empty checkpoint directory
\* ------------------------------------------------------------------------
Envs ==
    {e \in [train_dir : BOOLEAN, val_dir : BOOLEAN,
            train_size : 0..MaxTrainSize, val_size : 0..MaxValSize] :
        /\ (~e.train_dir => e.train_size = 0)
        /\ (~e.val_dir => e.val_size = 0)}

FirstArgs ==
    [epochs : 0..MaxEpochs, batch_size : 1..MaxBatchSize, gas : 1..MaxGas,
     resume : {"none", "missing"}, img_channels : ImgChannels]

\* Trainer.__init__
TrainerInit ==
    /\ error = "none"
    /\ config = [img_channels |-> 0]
    /\ weights = 0
    /\ optimizer = 0
    /\ lr_scheduler = 0
    /\ bound = {}
    /\ num_epochs = DefaultNumEpochs
    /\ gas = DefaultGas
    /\ epoch = 0
    /\ epoch_iter = 0
    /\ gac = 0
    /\ metric = NoMetric
    /\ recon_loss = AvgMeterInit
    /\ kl_loss = AvgMeterInit
    /\ loss_data = <<>>
    /\ index = 0
    /\ grads = {}
    /\ applied = <<>>
    /\ step_log = <<>>
    /\ captured = -1
    /\ spg_calls = 0
    /\ rendered = -1
    /\ ckpt_writes = 0
    /\ draws = <<>>
    /\ phases = <<>>

\* the start of a process
ProcInit ==
    /\ pc = "start"
    /\ TrainerInit

Init ==
    /\ env \in Envs
    /\ args \in FirstArgs
    /\ run = 1
    /\ ProcInit
    /\ primary = Absent
    /\ stamped = [e \in EpochIds |-> Absent]
    /\ ext = Absent
    /\ final = Absent
    /\ mcall = NoCall

\* ------------------------------------------------------------------------
\* main(): construction of the Trainer
\* ------------------------------------------------------------------------
\* the file args.resume names
ResumeFile ==
    IF args.resume = "inplace" THEN primary
    ELSE IF args.resume = "moved" THEN ext
    ELSE Absent

\* main() up to model.to(device): Trainer.load(checkpoint_file) when a resume
\* path is given and is a file, a fresh Trainer(config) otherwise
MainLoad ==
    /\ pc = "start"
    /\ IF args.resume # "none" /\ ResumeFile.state = "partial"
       THEN /\ pc' = "error"
            /\ error' = "LoadError"
            /\ UNCHANGED <<config, weights>>
       ELSE /\ pc' = "constructed"
            /\ error' = error
            /\ IF args.resume # "none" /\ ResumeFile.state = "complete"
               THEN /\ config' = ResumeFile.data.model_config
                    /\ weights' = ResumeFile.data.encoder_model_state_dict
               ELSE /\ config' = [img_channels |-> args.img_channels]
                    /\ weights' = 0
    /\ UNCHANGED <<env, args, run, optimizer, lr_scheduler, bound, num_epochs,
                   gas, epoch, epoch_iter, gac, metric, recon_loss, kl_loss,
                   loss_data, index, grads, applied, step_log, captured,
                   spg_calls, rendered, ckpt_writes, fileVars, draws, phases, mcall>>

\* mutation: only the training directory is tested
DirsExistTrainOnly(e) == e.train_dir

\* the two os.path.isdir tests of compile()
DirsExist(e) == e.train_dir /\ e.val_dir

\* Trainer.compile(args)
Compile ==
    /\ pc = "constructed"
    /\ num_epochs' = args.epochs
    /\ gas' = args.gas
    /\ IF ~DirsExist(env)
       THEN /\ pc' = "error"
            /\ error' = "FileNotFoundError"
            /\ UNCHANGED <<bound, optimizer, lr_scheduler>>
       ELSE /\ pc' = "ready"
            /\ error' = error
            /\ bound' = AllBound
            /\ optimizer' = 0
            /\ lr_scheduler' = 0
    /\ UNCHANGED <<env, args, run, config, weights, epoch, epoch_iter, gac,
                   metric, recon_loss, kl_loss, loss_data, index, grads,
                   applied, step_log, captured, spg_calls, rendered,
                   ckpt_writes, fileVars, draws, phases, mcall>>

\* ------------------------------------------------------------------------
\* fit(): resume
\* ------------------------------------------------------------------------
\* load_checkpoint() returns early without a resume path or without a file
ResumeUsable == args.resume # "none" /\ IsFile(ResumeFile)

\* mutation: training re-enters at the saved epoch
ResumeEpochSame(saved) == saved

\* self.epoch = ckpt_data['epoch'] + 1
ResumeEpoch(saved) == saved + 1

\* fit() up to the epoch loop: load_checkpoint() and the default Metric
FitBegin ==
    /\ pc = "ready"
    /\ IF ResumeUsable /\ ResumeFile.state = "partial"
       THEN /\ pc' = "error"
            /\ error' = "LoadError"
            /\ UNCHANGED <<optimizer, lr_scheduler, epoch, epoch_iter, metric>>
       ELSE /\ pc' = "loop"
            /\ error' = error
            /\ IF ResumeUsable
               THEN LET d == ResumeFile.data IN
                    /\ optimizer' = d.optimizer_state_dict
                    /\ lr_scheduler' = d.lr_scheduler_state_dict
                    /\ epoch' = ResumeEpoch(d.epoch)
                    /\ metric' = MetricLoad(d.metric_state_dict, num_epochs)
               ELSE /\ UNCHANGED <<optimizer, lr_scheduler, epoch>>
                    /\ metric' = MetricForFit(num_epochs)
            /\ epoch_iter' = epoch'
    /\ phases' = IF pc' = "loop" THEN <<<<"fit", epoch'>>>> ELSE phases
    /\ UNCHANGED <<draws, env, args, run, config, weights, bound, num_epochs, gas,
                   gac, recon_loss, kl_loss, loss_data, index, grads, applied,
                   step_log, captured, spg_calls, rendered, ckpt_writes,
                   fileVars, mcall>>

\* for epoch in range(self.epoch, self.num_epochs): one more epoch
\* an epoch loop that runs one epoch more
EpochStartOneMore ==
    /\ pc = "loop"
    /\ epoch_iter <= num_epochs
    /\ epoch' = epoch_iter
    /\ epoch_iter' = epoch_iter + 1
    /\ ckpt_writes' = 0
    /\ pc' = "train_begin"
    /\ UNCHANGED <<env, args, run, error, config, weights, optimizer,
                   lr_scheduler, bound, num_epochs, gas, gac, metric,
                   recon_loss, kl_loss, loss_data, index, grads, applied,
                   step_log, captured, spg_calls, rendered, fileVars, draws, phases,
                   mcall>>

EpochStart ==
    /\ pc = "loop"
    /\ epoch_iter < num_epochs
    /\ epoch' = epoch_iter
    /\ epoch_iter' = epoch_iter + 1
    /\ ckpt_writes' = 0
    /\ pc' = "train_begin"
    /\ UNCHANGED <<env, args, run, error, config, weights, optimizer,
                   lr_scheduler, bound, num_epochs, gas, gac, metric,
                   recon_loss, kl_loss, loss_data, index, grads, applied,
                   step_log, captured, spg_calls, rendered, fileVars, draws, phases,
                   mcall>>

\* ------------------------------------------------------------------------
\* train_one_epoch() and train_step()
\* ------------------------------------------------------------------------
\* mutation: off by one, the last batch is never recognised
IsLastIndexNever(i, length) == i >= length

\* is_last_index = index >= (length - 1)
IsLastIndex(i, length) == i >= length - 1

\* self.gac += len(images)
GacAfterBatch(g, batch_len) == g + batch_len

\* if self.gac >= self.gas or optimize
ShouldStep(g, threshold, optimize) == g >= threshold \/ optimize

LossData ==
    << <<"mse_losses", AvgMeterAvg(recon_loss)>>,
       <<"kl_divergence_losses", AvgMeterAvg(kl_loss)>> >>

\* train_one_epoch() up to the batch loop
TrainBegin ==
    /\ pc = "train_begin"
    /\ loss_data' = <<>>
    /\ recon_loss' = AvgMeterReset(recon_loss)
    /\ kl_loss' = AvgMeterReset(kl_loss)
    /\ grads' = {}
    /\ applied' = [i \in 0..(TrainLength - 1) |-> 0]
    /\ step_log' = <<>>
    /\ index' = 0
    /\ pc' = "train_loop"
    /\ phases' = Append(phases, <<"train_begin", epoch>>)
    /\ UNCHANGED <<draws, env, args, run, error, config, weights, optimizer,
                   lr_scheduler, bound, num_epochs, gas, epoch, epoch_iter,
                   gac, metric, captured, spg_calls, rendered, ckpt_writes,
                   fileVars, mcall>>

\* the forced step of the last batch leaves the counter as it is
TrainStepKeepCount ==
    /\ pc = "train_loop"
    /\ index < TrainLength
    /\ LET len == BatchLen(env.train_size, args.batch_size, index)
           g == GacAfterBatch(gac, len)
           accumulated == grads \cup {index}
           step == ShouldStep(g, gas, IsLastIndex(index, TrainLength))
       IN /\ recon_loss' = AvgMeterAdd(recon_loss, ReconLossItem(weights))
          /\ kl_loss' = AvgMeterAdd(kl_loss, KlLossItem(weights))
          /\ IF step
             THEN /\ optimizer' = optimizer + 1
                  /\ weights' = weights + 1
                  /\ applied' = [i \in DOMAIN applied |->
                                    IF i \in accumulated THEN applied[i] + 1
                                    ELSE applied[i]]
                  /\ grads' = {}
                  /\ step_log' = Append(step_log, index + 1)
                  /\ gac' = IF g >= gas THEN 0 ELSE g
             ELSE /\ grads' = accumulated
                  /\ gac' = g
                  /\ UNCHANGED <<optimizer, weights, applied, step_log>>
    /\ loss_data' = LossData'
    /\ index' = index + 1
    /\ UNCHANGED <<env, args, run, pc, error, config, lr_scheduler, bound,
                   num_epochs, gas, epoch, epoch_iter, metric, captured,
                   spg_calls, rendered, ckpt_writes, fileVars, draws, phases, mcall>>

\* one iteration of the batch loop: train_step(images, targets, write_fn,
\* is_last_index) and the refresh of loss_data
TrainStep ==
    /\ pc = "train_loop"
    /\ index < TrainLength
    /\ LET len == BatchLen(env.train_size, args.batch_size, index)
           g == GacAfterBatch(gac, len)
           accumulated == grads \cup {index}
           step == ShouldStep(g, gas, IsLastIndex(index, TrainLength))
       IN /\ recon_loss' = AvgMeterAdd(recon_loss, ReconLossItem(weights))
          /\ kl_loss' = AvgMeterAdd(kl_loss, KlLossItem(weights))
          /\ IF step
             THEN /\ optimizer' = optimizer + 1
                  /\ weights' = weights + 1
                  /\ applied' = [i \in DOMAIN applied |->
                                    IF i \in accumulated THEN applied[i] + 1
                                    ELSE applied[i]]
                  /\ grads' = {}
                  /\ step_log' = Append(step_log, index + 1)
                  /\ gac' = 0
             ELSE /\ grads' = accumulated
                  /\ gac' = g
                  /\ UNCHANGED <<optimizer, weights, applied, step_log>>
    /\ loss_data' = LossData'
    /\ index' = index + 1
    /\ UNCHANGED <<env, args, run, pc, error, config, lr_scheduler, bound,
                   num_epochs, gas, epoch, epoch_iter, metric, captured,
                   spg_calls, rendered, ckpt_writes, fileVars, draws, phases, mcall>>

\* the loader is exhausted: train_one_epoch() returns loss_data
TrainReturn ==
    /\ pc = "train_loop"
    /\ index >= TrainLength
    /\ pc' = "after_train"
    /\ phases' = Append(phases, <<"train_end", epoch>>)
    /\ UNCHANGED <<draws, env, args, run, error, procVars, fileVars, mcall>>

\* {name: {chn: value} for name, value in losses.items()}
MetricValues(losses, chn) ==
    [k \in 1..Len(losses) |->
        [name |-> losses[k][1], kind |-> "dict",
         items |-> << <<chn, losses[k][2]>> >>]]

\* the train metric without the scheduler step
AfterTrainNoSchedule ==
    /\ pc = "after_train"
    /\ lr_scheduler' = lr_scheduler
    /\ LET r == MetricSetItem(metric, epoch, MetricValues(loss_data, "train"))
       IN /\ metric' = r.metric
          /\ error' = r.raised
          /\ pc' = IF r.raised = "none" THEN "ckpt_train" ELSE "error"
    /\ UNCHANGED <<env, args, run, config, weights, optimizer, bound,
                   num_epochs, gas, epoch, epoch_iter, gac, recon_loss,
                   kl_loss, loss_data, index, grads, applied, step_log,
                   captured, spg_calls, rendered, ckpt_writes, fileVars,
                   draws, phases, mcall>>

\* fit() after train_one_epoch(): scheduler step and the train metric
AfterTrain ==
    /\ pc = "after_train"
    /\ lr_scheduler' = lr_scheduler + 1
    /\ LET r == MetricSetItem(metric, epoch, MetricValues(loss_data, "train"))
       IN /\ metric' = r.metric
          /\ error' = r.raised
          /\ pc' = IF r.raised = "none" THEN "ckpt_train" ELSE "error"
    /\ UNCHANGED <<env, args, run, config, weights, optimizer, bound,
                   num_epochs, gas, epoch, epoch_iter, gac, recon_loss,
                   kl_loss, loss_data, index, grads, applied, step_log,
                   captured, spg_calls, rendered, ckpt_writes, fileVars,
                   draws, phases, mcall>>

\* ------------------------------------------------------------------------
\* checkpoint()
\* ------------------------------------------------------------------------
\* the dict checkpoint() saves
CheckpointData ==
    [model_config |-> config,
     encoder_model_state_dict |-> weights,
     decoder_model_state_dict |-> weights,
     optimizer_state_dict |-> optimizer,
     lr_scheduler_state_dict |-> lr_scheduler,
     epoch |-> epoch,
     metric_state_dict |-> MetricStateDict(metric)]

\* f"checkpoint_{self.epoch}.pth"
StampedEpoch(e) == e

\* mutation: pruning starts one epoch late
ShouldPruneLate(e) == e > FirstPrunedEpoch

\* if self.epoch >= 2
ShouldPrune(e) == e >= FirstPrunedEpoch

\* f"checkpoint_{self.epoch - 2}.pth"
PruneEpoch(e) == e - PruneAge

\* copy(file_path1, file_path2)
CopyTo(st, e, f) == [st EXCEPT ![StampedEpoch(e)] = f]

\* os.remove(old_checkpoint_file) when it is a file
Prune(st, e) ==
    IF ShouldPrune(e) /\ PruneEpoch(e) \in DOMAIN st /\ IsFile(st[PruneEpoch(e)])
    THEN [st EXCEPT ![PruneEpoch(e)] = Absent]
    ELSE st

\* a whole checkpoint() call
DoCheckpoint ==
    /\ primary' = Complete(CheckpointData)
    /\ stamped' = Prune(CopyTo(stamped, epoch, primary'), epoch)
    /\ ckpt_writes' = ckpt_writes + 1

\* mutation: no checkpoint between the train phase and validation
CheckpointTrainSkipped ==
    /\ pc = "ckpt_train"
    /\ pc' = "val_begin"
    /\ UNCHANGED <<env, args, run, error, procVars, fileVars, draws, phases, mcall>>

\* fit(): "Make checkpoint after training"
CheckpointTrain ==
    /\ pc = "ckpt_train"
    /\ DoCheckpoint
    /\ pc' = "val_begin"
    /\ UNCHANGED <<env, args, run, error, config, weights, optimizer,
                   lr_scheduler, bound, num_epochs, gas, epoch, epoch_iter,
                   gac, metric, recon_loss, kl_loss, loss_data, index, grads,
                   applied, step_log, captured, spg_calls, rendered, ext,
                   final, draws, phases, mcall>>

\* fit(): "Make checkpoint after validation"
CheckpointVal ==
    /\ pc = "ckpt_val"
    /\ DoCheckpoint
    /\ pc' = "loop"
    /\ UNCHANGED <<env, args, run, error, config, weights, optimizer,
                   lr_scheduler, bound, num_epochs, gas, epoch, epoch_iter,
                   gac, metric, recon_loss, kl_loss, loss_data, index, grads,
                   applied, step_log, captured, spg_calls, rendered, ext,
                   final, draws, phases, mcall>>

\* ------------------------------------------------------------------------
\* validate()
\* ------------------------------------------------------------------------
\* validate() up to the batch loop
ValidateBegin ==
    /\ pc = "val_begin"
    /\ loss_data' = <<>>
    /\ recon_loss' = AvgMeterReset(recon_loss)
    /\ kl_loss' = AvgMeterReset(kl_loss)
    /\ captured' = -1
    /\ draws' = <<>>
    /\ spg_calls' = 0
    /\ rendered' = -1
    /\ index' = 0
    /\ pc' = "val_loop"
    /\ phases' = Append(phases, <<"val_begin", epoch>>)
    /\ UNCHANGED <<env, args, run, error, config, weights, optimizer,
                   lr_scheduler, bound, num_epochs, gas, epoch, epoch_iter,
                   gac, metric, grads, applied, step_log, ckpt_writes,
                   fileVars, mcall>>

\* a capture that every draw below 0.3 renews
CapturesLatest(cap, below) == below

\* if None in (predictions, references) and random_val < 0.3
Captures(cap, below) == cap = -1 /\ below

\* a validation iteration that counts its batch into the accumulation
\* counter and steps the optimizer as train_step does
ValidateStepOptimizing ==
    /\ pc = "val_loop"
    /\ index < ValLength
    /\ recon_loss' = AvgMeterAdd(recon_loss, ReconLossItem(weights))
    /\ kl_loss' = AvgMeterAdd(kl_loss, KlLossItem(weights))
    /\ loss_data' = LossData'
    /\ \E below \in BOOLEAN :
          /\ captured' = IF Captures(captured, below) THEN index
                         ELSE captured
          /\ draws' = Append(draws, below)
    /\ index' = index + 1
    /\ IF gac + BatchLen(env.val_size, args.batch_size, index) >= gas
       THEN /\ gac' = 0
            /\ weights' = weights + 1
            /\ optimizer' = optimizer + 1
       ELSE /\ gac' = gac + BatchLen(env.val_size, args.batch_size, index)
            /\ UNCHANGED <<weights, optimizer>>
    /\ UNCHANGED <<env, args, run, pc, error, config, lr_scheduler, bound,
                   num_epochs, gas, epoch, epoch_iter, metric, grads, applied,
                   step_log, spg_calls, rendered, ckpt_writes, fileVars,
                   phases, mcall>>

\* one iteration of the validation loop; below: np.random.rand() < 0.3
ValidateStep ==
    /\ pc = "val_loop"
    /\ index < ValLength
    /\ recon_loss' = AvgMeterAdd(recon_loss, ReconLossItem(weights))
    /\ kl_loss' = AvgMeterAdd(kl_loss, KlLossItem(weights))
    /\ loss_data' = LossData'
    /\ \E below \in BOOLEAN :
          /\ captured' = IF Captures(captured, below) THEN index
                         ELSE captured
          /\ draws' = Append(draws, below)
    /\ index' = index + 1
    /\ UNCHANGED <<env, args, run, pc, error, config, weights, optimizer,
                   lr_scheduler, bound, num_epochs, gas, epoch, epoch_iter,
                   gac, metric, grads, applied, step_log, spg_calls, rendered,
                   ckpt_writes, fileVars, phases, mcall>>

\* after the loop: self.spg.generate(reconstructed_image, targets), whose
\* arguments are the loop's last values and are unbound after an empty loop
ValidateReturn ==
    /\ pc = "val_loop"
    /\ index >= ValLength
    /\ IF index = 0
       THEN /\ pc' = "error"
            /\ error' = "UnboundLocalError"
            /\ UNCHANGED <<spg_calls, rendered>>
       ELSE /\ pc' = "after_val"
            /\ error' = error
            /\ spg_calls' = spg_calls + 1
            /\ rendered' = index - 1
    /\ phases' = IF index = 0 THEN phases
                  ELSE Append(phases, <<"val_end", epoch>>)
    /\ UNCHANGED <<draws, env, args, run, config, weights, optimizer, lr_scheduler,
                   bound, num_epochs, gas, epoch, epoch_iter, gac, metric,
                   recon_loss, kl_loss, loss_data, index, grads, applied,
                   step_log, captured, ckpt_writes, fileVars, mcall>>

\* validation losses stored under the train channel
AfterValAsTrain ==
    /\ pc = "after_val"
    /\ LET r == MetricSetItem(metric, epoch, MetricValues(loss_data, "train"))
       IN /\ metric' = r.metric
          /\ error' = r.raised
          /\ pc' = IF r.raised = "none" THEN "ckpt_val" ELSE "error"
    /\ UNCHANGED <<env, args, run, config, weights, optimizer, lr_scheduler,
                   bound, num_epochs, gas, epoch, epoch_iter, gac, recon_loss,
                   kl_loss, loss_data, index, grads, applied, step_log,
                   captured, spg_calls, rendered, ckpt_writes, fileVars,
                   draws, phases, mcall>>

\* fit() after validate(): the val metric
AfterVal ==
    /\ pc = "after_val"
    /\ LET r == MetricSetItem(metric, epoch, MetricValues(loss_data, "val"))
       IN /\ metric' = r.metric
          /\ error' = r.raised
          /\ pc' = IF r.raised = "none" THEN "ckpt_val" ELSE "error"
    /\ UNCHANGED <<env, args, run, config, weights, optimizer, lr_scheduler,
                   bound, num_epochs, gas, epoch, epoch_iter, gac, recon_loss,
                   kl_loss, loss_data, index, grads, applied, step_log,
                   captured, spg_calls, rendered, ckpt_writes, fileVars,
                   draws, phases, mcall>>

\* ------------------------------------------------------------------------
\* fit(): end
\* ------------------------------------------------------------------------
ModelDir == [weights |-> weights, config |-> config]

\* a final save made from inside the epoch loop, after the last epoch's
\* validation checkpoint
FinalSaveInsideLoop ==
    /\ pc = "loop"
    /\ epoch_iter >= num_epochs
    /\ final' = IF ckpt_writes = 2
                THEN [state |-> "complete", vae_encoder |-> ModelDir,
                      vae_decoder |-> ModelDir]
                ELSE final
    /\ pc' = "done"
    /\ UNCHANGED <<env, args, run, error, procVars, primary, stamped, ext,
                   draws, phases, mcall>>

\* the epoch range is exhausted: save_encoder / save_decoder
FinalSave ==
    /\ pc = "loop"
    /\ epoch_iter >= num_epochs
    /\ final' = [state |-> "complete", vae_encoder |-> ModelDir,
                 vae_decoder |-> ModelDir]
    /\ pc' = "done"
    /\ UNCHANGED <<env, args, run, error, procVars, primary, stamped, ext,
                   draws, phases, mcall>>

\* ------------------------------------------------------------------------
\* Interruption (KeyboardInterrupt, kill) and relaunch
\* ------------------------------------------------------------------------
Stopped == {"done", "error", "interrupted"}

\* the process is interrupted between two steps
Interrupt ==
    /\ pc \notin Stopped
    /\ pc' = "interrupted"
    /\ UNCHANGED <<env, args, run, error, procVars, fileVars, draws, phases, mcall>>

CheckpointStages == {"saving", "saved", "copying", "copied"}

\* the process is interrupted inside checkpoint(): during torch.save,
\* between torch.save and copy, during copy, or before the removal
InterruptCheckpoint ==
    /\ pc \in {"ckpt_train", "ckpt_val"}
    /\ \E stage \in CheckpointStages :
          /\ primary' = IF stage = "saving" THEN Partial
                        ELSE Complete(CheckpointData)
          /\ stamped' = IF stage \in {"saving", "saved"} THEN stamped
                        ELSE IF stage = "copying"
                             THEN CopyTo(stamped, epoch, Partial)
                        ELSE CopyTo(stamped, epoch, primary')
    /\ pc' = "interrupted"
    /\ UNCHANGED <<env, args, run, error, procVars, ext, final, draws, phases, mcall>>

ProcReset ==
    /\ pc' = "start"
    /\ error' = "none"
    /\ config' = [img_channels |-> 0]
    /\ weights' = 0
    /\ optimizer' = 0
    /\ lr_scheduler' = 0
    /\ bound' = {}
    /\ num_epochs' = DefaultNumEpochs
    /\ gas' = DefaultGas
    /\ epoch' = 0
    /\ epoch_iter' = 0
    /\ gac' = 0
    /\ metric' = NoMetric
    /\ recon_loss' = AvgMeterInit
    /\ kl_loss' = AvgMeterInit
    /\ loss_data' = <<>>
    /\ index' = 0
    /\ grads' = {}
    /\ applied' = <<>>
    /\ step_log' = <<>>
    /\ captured' = -1
    /\ spg_calls' = 0
    /\ rendered' = -1
    /\ ckpt_writes' = 0
    /\ draws' = <<>>
    /\ phases' = <<>>

\* the user launches the program again with --resume: on checkpoint.pth in
\* place, or on checkpoint.pth moved aside with an emptied checkpoint
\* directory; the epoch count may be changed
Relaunch ==
    /\ pc \in Stopped
    /\ run < MaxRuns
    /\ run' = run + 1
    /\ \E mode \in {"inplace", "moved"}, n \in 0..MaxEpochs :
          /\ args' = [args EXCEPT !.resume = mode, !.epochs = n]
          /\ IF mode = "moved"
             THEN /\ ext' = primary
                  /\ primary' = Absent
                  /\ stamped' = [e \in EpochIds |-> Absent]
             ELSE UNCHANGED <<primary, stamped, ext>>
    /\ ProcReset
    /\ UNCHANGED <<env, final, mcall>>

Next ==
    \/ MainLoad
    \/ Compile
    \/ FitBegin
    \/ EpochStart
    \/ TrainBegin
    \/ TrainStep
    \/ TrainReturn
    \/ AfterTrain
    \/ CheckpointTrain
    \/ ValidateBegin
    \/ ValidateStep
    \/ ValidateReturn
    \/ AfterVal
    \/ CheckpointVal
    \/ FinalSave
    \/ Interrupt
    \/ InterruptCheckpoint

Spec == Init /\ [][Next]_vars

\* ------------------------------------------------------------------------
\* Unit-level calls: a process that only exercises one class or function.
\* Everything but the call record mcall stays as constructed.
\* ------------------------------------------------------------------------
UnitInit(position) ==
    /\ env = [train_dir |-> TRUE, val_dir |-> TRUE, train_size |-> 0,
              val_size |-> 0]
    /\ args = [epochs |-> 0, batch_size |-> DefaultBatchSize,
               gas |-> DefaultGas, resume |-> "none", img_channels |-> 3]
    /\ run = 1
    /\ pc = position
    /\ TrainerInit
    /\ primary = Absent
    /\ stamped = [e \in EpochIds |-> Absent]
    /\ ext = Absent
    /\ final = Absent

unitFrame ==
    <<env, args, run, pc, error, procVars, fileVars, draws, phases>>

\* ------------------------------------------------------------------------
\* AvgMeter: a meter is constructed, then added to and reset
\* ------------------------------------------------------------------------
MeterValues == {0 - 2, 0, 1, 3}

\* meter = AvgMeter(val)
InitAvgMeter ==
    /\ UnitInit("avg_meter_api")
    /\ \E val \in MeterValues :
          mcall = [op |-> "new", origin |-> "new", val |-> val,
                   meter |-> AvgMeterNew(val), added |-> <<>>,
                   before |-> AvgMeterNew(val)]

\* meter += v
CallAdd ==
    /\ pc = "avg_meter_api"
    /\ Len(mcall.added) < MaxAdds
    /\ \E v \in MeterValues :
          mcall' = [mcall EXCEPT !.op = "add",
                                 !.meter = AvgMeterAdd(@, v),
                                 !.added = Append(@, v)]
    /\ UNCHANGED unitFrame

\* meter.reset()
CallReset ==
    /\ pc = "avg_meter_api"
    /\ mcall.op # "reset"
    /\ mcall' = [op |-> "reset", origin |-> "reset", val |-> 0,
                 meter |-> AvgMeterReset(mcall.meter), added |-> <<>>,
                 before |-> mcall.meter]
    /\ UNCHANGED unitFrame

NextAvgMeter ==
    \/ CallAdd
    \/ CallReset

SpecAvgMeter == InitAvgMeter /\ [][NextAvgMeter]_vars

\* ------------------------------------------------------------------------
\* Encoder and Decoder: the shapes [n, c, h, w] of the tensors through the
\* layers
\* ------------------------------------------------------------------------
Conv2d(i, o, k, s, p) ==
    [kind |-> "conv", in |-> i, out |-> o, k |-> k, s |-> s, p |-> p]
\* ResidualBlock, AttentionBlock, GroupNorm, SiLU: the height and width
\* are kept
Block(i, o) ==
    [kind |-> "block", in |-> i, out |-> o, k |-> 1, s |-> 1, p |-> 0]
Upsample(f) ==
    [kind |-> "up", in |-> 0, out |-> 0, k |-> 1, s |-> f, p |-> 0]

EncoderLayers(img_channels, zch) ==
    << Conv2d(img_channels, 128, 3, 1, 1), Block(128, 128),
       Conv2d(128, 128, 3, 2, 0),
       Block(128, 256), Block(256, 256),
       Conv2d(256, 256, 3, 2, 0),
       Block(256, 512), Block(512, 512),
       Conv2d(512, 512, 3, 2, 0),
       Block(512, 512), Block(512, 512), Block(512, 512),
       Block(512, 512), Block(512, 512), Block(512, 512), Block(512, 512),
       Conv2d(512, zch, 3, 1, 1),
       Conv2d(zch, zch, 1, 1, 0) >>

DecoderLayers(img_channels, zch) ==
    << Conv2d(zch \div 2, 512, 3, 1, 1), Block(512, 512),
       Block(512, 512), Block(512, 512), Block(512, 512), Block(512, 512),
       Upsample(2), Conv2d(512, 512, 3, 1, 1),
       Block(512, 512), Block(512, 512), Block(512, 512),
       Upsample(2), Conv2d(512, 512, 3, 1, 1),
       Block(512, 256), Block(256, 256), Block(256, 256),
       Upsample(2), Conv2d(256, 256, 3, 1, 1),
       Block(256, 128), Block(128, 128), Block(128, 128),
       Block(128, 128), Block(128, 128),
       Conv2d(128, img_channels, 3, 1, 1) >>

Shape(n, c, h, w) == [n |-> n, c |-> c, h |-> h, w |-> w]
\* the shape of no tensor: the layer raised
NoShape == Shape(0, 0, 0, 0)

\* output length of a convolution along one axis
ConvOut(len, k, s, p) == ((len + 2 * p - k) \div s) + 1

\* no padding before a stride-2 convolution
PadNone(layer) == 0

\* Encoder.forward: F.pad(x, (0, 1, 0, 1)) before a Conv2d of stride (2, 2)
PadRightBottom(layer) ==
    IF layer.kind = "conv" /\ layer.s = 2 THEN 1 ELSE 0

\* module(x) on a tensor of shape x
Layer(layer, x) ==
    IF x = NoShape THEN NoShape
    ELSE IF layer.kind = "up"
         THEN Shape(x.n, x.c, x.h * layer.s, x.w * layer.s)
    ELSE IF x.c # layer.in THEN NoShape
    ELSE IF layer.kind = "block" THEN Shape(x.n, layer.out, x.h, x.w)
    ELSE IF x.h + 2 * layer.p < layer.k \/ x.w + 2 * layer.p < layer.k
         THEN NoShape
    ELSE Shape(x.n, layer.out,
               ConvOut(x.h, layer.k, layer.s, layer.p),
               ConvOut(x.w, layer.k, layer.s, layer.p))

\* for module in self: x = module(x), with the encoder's padding when
\* padded is TRUE
RECURSIVE Modules(_, _, _, _)
Modules(layers, x, padded, i) ==
    IF i > Len(layers) THEN x
    ELSE LET pad == IF padded THEN PadRightBottom(layers[i]) ELSE 0
             y == IF x = NoShape THEN NoShape
                  ELSE Shape(x.n, x.c, x.h + pad, x.w + pad)
         IN Modules(layers, Layer(layers[i], y), padded, i + 1)

\* torch.chunk(x, 2, dim=1): the channel counts of the chunks
ChunkSizes(c) ==
    LET size == (c + 1) \div 2
    IN IF c <= size THEN <<c>> ELSE <<size, c - size>>

\* channel count of mean + eps * std under broadcasting, 0 when the two
\* counts do not broadcast
Broadcast(a, b) ==
    IF a = b THEN a
    ELSE IF a = 1 THEN b
    ELSE IF b = 1 THEN a
    ELSE 0

\* Encoder.forward on an input of shape x: the shapes of out, mean and
\* log_variance
EncoderForward(cfg, x) ==
    LET y == Modules(EncoderLayers(cfg.img_channels, cfg.zch), x, TRUE, 1)
        failed == [out |-> NoShape, mean |-> NoShape,
                   log_variance |-> NoShape, raised |-> TRUE]
    IN IF y = NoShape THEN failed
       ELSE LET sizes == ChunkSizes(y.c)
            IN IF Len(sizes) # 2 THEN failed
               ELSE IF Broadcast(sizes[1], sizes[2]) = 0 THEN failed
               ELSE [out |-> Shape(y.n, Broadcast(sizes[1], sizes[2]),
                                   y.h, y.w),
                     mean |-> Shape(y.n, sizes[1], y.h, y.w),
                     log_variance |-> Shape(y.n, sizes[2], y.h, y.w),
                     raised |-> FALSE]

\* Decoder.forward on a latent of shape z
DecoderForward(cfg, z) ==
    Modules(DecoderLayers(cfg.img_channels, cfg.zch), z, FALSE, 1)

ModelConfigs == [img_channels : ImgChannels, zch : 1..MaxZch]

InputShapes ==
    [n : 1..MaxBatchSize, c : ImgChannels, h : 1..MaxSide, w : 1..MaxSide]

\* a model is built from a config and given a batch of images
InitShapes ==
    /\ UnitInit("model_api")
    /\ \E cfg \in ModelConfigs, x \in InputShapes :
          mcall = [op |-> "input", cfg |-> cfg, x |-> x,
                   enc |-> EncoderForward(cfg, NoShape), dec |-> NoShape]

\* out, (mean, log_variance) = encoder(x)
CallEncoder ==
    /\ pc = "model_api"
    /\ mcall.op = "input"
    /\ mcall' = [mcall EXCEPT !.op = "encoded",
                              !.enc = EncoderForward(mcall.cfg, mcall.x)]
    /\ UNCHANGED unitFrame

\* decoder(out)
CallDecoder ==
    /\ pc = "model_api"
    /\ mcall.op = "encoded"
    /\ ~mcall.enc.raised
    /\ mcall' = [mcall EXCEPT !.op = "decoded",
                              !.dec = DecoderForward(mcall.cfg, mcall.enc.out)]
    /\ UNCHANGED unitFrame

NextShapes ==
    \/ CallEncoder
    \/ CallDecoder

SpecShapes == InitShapes /\ [][NextShapes]_vars

\* ------------------------------------------------------------------------
\* The end of Encoder.forward, element by element. A tensor element is a
\* real number (an + bn * e^(p/2)) / d with integers an, bn, d > 0 and p,
\* kept in lowest terms, or one of the values inf, -inf and nan of the
\* floating-point arithmetic.
\* ------------------------------------------------------------------------
Abs(x) == IF x < 0 THEN 0 - x ELSE x

RECURSIVE GCD(_, _)
GCD(a, b) == IF b = 0 THEN a ELSE GCD(b, a % b)

\* (an + bn * e^(p/2)) / d in lowest terms; e^0 = 1
Real(an, bn, d, p) ==
    LET a1 == IF p = 0 THEN an + bn ELSE an
        b1 == IF p = 0 THEN 0 ELSE bn
        g == GCD(GCD(Abs(a1), Abs(b1)), d)
    IN [k |-> "fin", an |-> a1 \div g, bn |-> b1 \div g, d |-> d \div g,
        p |-> IF b1 = 0 THEN 0 ELSE p]

NonFinite(kind) == [k |-> kind, an |-> 0, bn |-> 0, d |-> 1, p |-> 0]

\* the largest integer x for which exp(x) is a finite float32
ExpMaxArg == 88

\* a clamp with no lower limit
ClampAbove(v, lo, hi) == IF v > hi THEN hi ELSE v

\* torch.clamp(v, lo, hi)
Clamp(v, lo, hi) == IF v < lo THEN lo ELSE IF v > hi THEN hi ELSE v

\* std = torch.exp(0.5 * log_variance)
ExpHalf(lv) ==
    IF lv > 2 * ExpMaxArg + 1 THEN NonFinite("inf") ELSE Real(0, 1, 1, lv)

\* eps * std
TimesNoise(eps, std) ==
    IF std.k = "fin" THEN Real(eps * std.an, eps * std.bn, std.d, std.p)
    ELSE IF eps = 0 THEN NonFinite("nan")
    ELSE IF eps > 0 THEN std
    ELSE NonFinite("-inf")

\* mean + v
PlusMean(mean, v) ==
    IF v.k = "fin" THEN Real(mean * v.d + v.an, v.bn, v.d, v.p) ELSE v

\* v * f and v / f for a positive fraction f
Times(v, f) ==
    IF v.k = "fin" THEN Real(v.an * f.n, v.bn * f.n, v.d * f.d, v.p) ELSE v
Over(v, f) ==
    IF v.k = "fin" THEN Real(v.an * f.d, v.bn * f.d, v.d * f.n, v.p) ELSE v

\* a sample that takes exp(log_variance) for the standard deviation
ReparameterizeVariance(mean, lv, eps, f) ==
    Times(PlusMean(mean, TimesNoise(eps, ExpHalf(2 * lv))), f)

\* std = torch.exp(0.5 * log_variance); x = mean + eps * std;
\* out = x * self.mult_factor
Reparameterize(mean, lv, eps, f) ==
    Times(PlusMean(mean, TimesNoise(eps, ExpHalf(lv))), f)

\* Encoder.forward after the chunk, for one element of mean and
\* log_variance: the returned log_variance and the returned sample
EncoderTail(mean, raw, eps, f) ==
    LET lv == Clamp(raw, ClampMin, ClampMax)
    IN [log_variance |-> lv, out |-> Reparameterize(mean, lv, eps, f)]

\* Decoder.forward: x = x / self.mult_factor
DecoderUnscale(x, f) == Over(x, f)

\* mult_factor as a fraction: the default 0.18215 and one more
DefaultMultFactor == [n |-> 3643, d |-> 20000]
MultFactors == {DefaultMultFactor, [n |-> 1, d |-> 2]}

Means == (0 - MaxMean)..MaxMean
RawLogVars == (0 - MaxRawLogVar)..MaxRawLogVar
\* values of eps = torch.randn_like(std)
Noise == {0 - 1, 0, 1}

\* the last convolution has produced one element of mean and log_variance
InitSample ==
    /\ UnitInit("encoder_api")
    /\ \E f \in MultFactors, mean \in Means, raw \in RawLogVars,
          eps \in Noise :
          mcall = [op |-> "input", mult_factor |-> f, mean |-> mean,
                   raw |-> raw, eps |-> eps, log_variance |-> raw,
                   out |-> Real(0, 0, 1, 0), dec |-> Real(0, 0, 1, 0)]

\* the encoder clamps, samples and scales
CallSample ==
    /\ pc = "encoder_api"
    /\ mcall.op = "input"
    /\ LET r == EncoderTail(mcall.mean, mcall.raw, mcall.eps,
                            mcall.mult_factor)
       IN mcall' = [mcall EXCEPT !.op = "sampled",
                                 !.log_variance = r.log_variance,
                                 !.out = r.out]
    /\ UNCHANGED unitFrame

\* the decoder takes the sample
CallUnscale ==
    /\ pc = "encoder_api"
    /\ mcall.op = "sampled"
    /\ mcall' = [mcall EXCEPT !.op = "decoded",
                              !.dec = DecoderUnscale(mcall.out,
                                                     mcall.mult_factor)]
    /\ UNCHANGED unitFrame

NextSample ==
    \/ CallSample
    \/ CallUnscale

SpecSample == InitSample /\ [][NextSample]_vars

\* ------------------------------------------------------------------------
\* KLDiv.forward on tensors of a few elements. The loss is a real number
\* (a + b * (e^p1 + ... + e^pk)) / d with integers a, b, d > 0 and non-zero
\* exponents p1..pk, in lowest terms, or one of inf, -inf and nan.
\* ------------------------------------------------------------------------
\* the least integer x for which exp(x) is a non-zero float32
ExpMinArg == 0 - 103

ExpSum(a, b, d, exps) ==
    LET b1 == IF exps = <<>> THEN 0 ELSE b
        g == GCD(GCD(Abs(a), Abs(b1)), d)
    IN [k |-> "fin", a |-> a \div g, b |-> b1 \div g, d |-> d \div g,
        exps |-> IF b1 = 0 THEN <<>> ELSE exps]

NoSum(kind) == [k |-> kind, a |-> 0, b |-> 0, d |-> 1, exps |-> <<>>]

\* log_variance.exp() of one element is inf, 0, 1 or a term e^p
ExpOverflows(lv) == lv > ExpMaxArg
ExpIsTerm(lv) == lv # 0 /\ lv >= ExpMinArg /\ ~ExpOverflows(lv)

\* 1 + log_variance - mean.pow(2) - log_variance.exp() without its term e^p
TermConst(e) ==
    1 + e.log_variance - e.mean * e.mean
      - (IF e.log_variance = 0 THEN 1 ELSE 0)

\* x = torch.sum(...): the constant, the exponents of the terms -e^p, and
\* whether an exponential overflowed
RECURSIVE KlSum(_, _)
KlSum(elems, i) ==
    IF i > Len(elems) THEN [c |-> 0, exps |-> <<>>, overflow |-> FALSE]
    ELSE LET rest == KlSum(elems, i + 1)
             e == elems[i]
         IN [c |-> TermConst(e) + rest.c,
             exps |-> IF ExpIsTerm(e.log_variance)
                      THEN <<e.log_variance>> \o rest.exps
                      ELSE rest.exps,
             overflow |-> ExpOverflows(e.log_variance) \/ rest.overflow]

\* a halving that keeps the sign of x
KlHalfPositive(x) ==
    IF x.overflow THEN NoSum("-inf") ELSE ExpSum(x.c, 0 - 1, 2, x.exps)

\* kl_divergence = -0.5 * x
KlHalf(x) ==
    IF x.overflow THEN NoSum("inf") ELSE ExpSum(0 - x.c, 1, 2, x.exps)

\* output = self.beta * kl_divergence
KlScale(beta, kl) ==
    IF kl.k = "fin"
    THEN ExpSum(beta.n * kl.a, beta.n * kl.b, beta.d * kl.d, kl.exps)
    ELSE IF beta.n = 0 THEN NoSum("nan")
    ELSE IF (beta.n > 0) = (kl.k = "inf") THEN NoSum("inf")
    ELSE NoSum("-inf")

KLDivForward(beta, elems) == KlScale(beta, KlHalf(KlSum(elems, 1)))

Betas == {[n |-> 0, d |-> 1], DefaultBeta, [n |-> 1, d |-> 1],
          [n |-> 0 - 1, d |-> 1]}
KlMeans == {0 - 2, 0, 1}
KlLogVars == {0 - 200, 0 - 31, 0 - 30, 0 - 1, 0, 1, 2, 20, 200}
KlElems == [mean : KlMeans, log_variance : KlLogVars]
KlTensors == UNION {[1..n -> KlElems] : n \in 1..MaxElems}

\* kl_div = KLDiv(beta) and a pair of tensors
InitKLDiv ==
    /\ UnitInit("kl_div_api")
    /\ \E beta \in Betas, elems \in KlTensors :
          mcall = [op |-> "input", beta |-> beta, elems |-> elems,
                   output |-> NoSum("nan")]

\* kl_div(mean, log_variance)
CallKLDiv ==
    /\ pc = "kl_div_api"
    /\ mcall.op = "input"
    /\ mcall' = [mcall EXCEPT !.op = "kl_div",
                              !.output = KLDivForward(mcall.beta,
                                                      mcall.elems)]
    /\ UNCHANGED unitFrame

NextKLDiv == CallKLDiv

SpecKLDiv == InitKLDiv /\ [][NextKLDiv]_vars

\* ------------------------------------------------------------------------
\* Interrupted and relaunched processes: the same program over a sequence
\* of up to MaxRuns launches on small datasets
\* ------------------------------------------------------------------------
ResumeEnvs ==
    [train_dir : {TRUE}, val_dir : {TRUE},
     train_size : 1..ResumeMaxSize, val_size : 1..ResumeMaxSize]

ResumeArgs ==
    [epochs : 0..MaxEpochs, batch_size : {DefaultBatchSize},
     gas : {DefaultGas}, resume : {"none"}, img_channels : {3}]

InitResume ==
    /\ env \in ResumeEnvs
    /\ args \in ResumeArgs
    /\ run = 1
    /\ ProcInit
    /\ primary = Absent
    /\ stamped = [e \in EpochIds |-> Absent]
    /\ ext = Absent
    /\ final = Absent
    /\ mcall = NoCall

NextResume ==
    \/ MainLoad
    \/ Compile
    \/ FitBegin
    \/ EpochStart
    \/ TrainBegin
    \/ TrainStep
    \/ TrainReturn
    \/ AfterTrain
    \/ CheckpointTrain
    \/ ValidateBegin
    \/ ValidateStep
    \/ ValidateReturn
    \/ AfterVal
    \/ CheckpointVal
    \/ FinalSave
    \/ Interrupt
    \/ InterruptCheckpoint
    \/ Relaunch

SpecResume == InitResume /\ [][NextResume]_vars

TypeOK ==
    /\ pc \in {"start", "constructed", "ready", "loop", "train_begin",
               "train_loop", "after_train", "ckpt_train", "val_begin",
               "val_loop", "after_val", "ckpt_val", "done", "error",
               "interrupted"}
    /\ run \in 1..MaxRuns
    /\ epoch \in 0..(MaxEpochs + 1)

\* ------------------------------------------------------------------------
\* One training epoch on its own: a compiled trainer at the start of
\* train_one_epoch(), over loaders of up to GaBatches batches
\* ------------------------------------------------------------------------
GaEnvs ==
    [train_dir : {TRUE}, val_dir : {TRUE},
     train_size : 0..(GaBatches * MaxBatchSize), val_size : {0}]

GaArgs ==
    [epochs : {1}, batch_size : 1..MaxBatchSize, gas : 1..GaMaxGas,
     resume : {"none"}, img_channels : {3}]

InitGA ==
    /\ env \in GaEnvs
    /\ args \in GaArgs
    /\ NumBatches(env.train_size, args.batch_size) <= GaBatches
    /\ run = 1
    /\ pc = "train_begin"
    /\ error = "none"
    /\ config = [img_channels |-> args.img_channels]
    /\ weights = 0
    /\ optimizer = 0
    /\ lr_scheduler = 0
    /\ bound = AllBound
    /\ num_epochs = args.epochs
    /\ gas = args.gas
    /\ epoch = 0
    /\ epoch_iter = 1
    /\ gac = 0
    /\ metric = MetricForFit(args.epochs)
    /\ recon_loss = AvgMeterInit
    /\ kl_loss = AvgMeterInit
    /\ loss_data = <<>>
    /\ index = 0
    /\ grads = {}
    /\ applied = <<>>
    /\ step_log = <<>>
    /\ captured = -1
    /\ spg_calls = 0
    /\ rendered = -1
    /\ ckpt_writes = 0
    /\ draws = <<>>
    /\ phases = <<>>
    /\ primary = Absent
    /\ stamped = [e \in EpochIds |-> Absent]
    /\ ext = Absent
    /\ final = Absent
    /\ mcall = NoCall

NextGA ==
    \/ TrainBegin
    \/ TrainStep
    \/ TrainReturn

SpecGA == InitGA /\ [][NextGA]_vars

\* ------------------------------------------------------------------------
\* The Metric interface on its own: __setitem__ and state_dict / load
\* called with arbitrary arguments on a Metric of the trainer's shape
\* ------------------------------------------------------------------------
CallValues == {Rat(3, 2)}
CallNames == {"mse_losses", "kl_divergence_losses", "accuracy", "channels"}
CallChannels == {"train", "val", "test"}

DictEntries ==
    {[name |-> nm, kind |-> "dict", items |-> << <<ch, v>> >>] :
        nm \in CallNames, ch \in CallChannels, v \in CallValues}

ListEntries ==
    {[name |-> nm, kind |-> "list", items |-> it] :
        nm \in {"mse_losses", "accuracy"},
        it \in {<< <<"", Rat(1, 1)>> >>,
                << <<"", Rat(1, 1)>>, <<"", Rat(3, 2)>> >>}}

CallEntries == DictEntries \cup ListEntries

\* metric_values arguments: dicts of at most two entries, in insertion
\* order; the keys of a dict are distinct
CallMetricValues ==
    {<<>>} \cup {<<a>> : a \in CallEntries}
           \cup {p \in DictEntries \X DictEntries : p[1].name # p[2].name}

CallEpochs == (0 - 2)..(MaxEpochs + 1)

\* the losses fit() records for a phase of epoch e in the harness
SeedLosses(e, chn) ==
    << <<"mse_losses", Rat(e + 1, IF chn = "train" THEN 1 ELSE 2)>>,
       <<"kl_divergence_losses", Rat(1, e + 1)>> >>

\* the Metric of a trainer after the epochs k..(upto - 1) were recorded
RECURSIVE Recorded(_, _, _)
Recorded(m, k, upto) ==
    IF k >= upto THEN m
    ELSE LET t == MetricSetItem(m, k, MetricValues(SeedLosses(k, "train"), "train")).metric
             v == MetricSetItem(t, k, MetricValues(SeedLosses(k, "val"), "val")).metric
         IN Recorded(v, k + 1, upto)

InitMetric ==
    /\ env = [train_dir |-> TRUE, val_dir |-> TRUE, train_size |-> 0,
              val_size |-> 0]
    /\ args = [epochs |-> 0, batch_size |-> DefaultBatchSize,
               gas |-> DefaultGas, resume |-> "none", img_channels |-> 3]
    /\ run = 1
    /\ pc = "metric_api"
    /\ error = "none"
    /\ config = [img_channels |-> args.img_channels]
    /\ weights = 0
    /\ optimizer = 0
    /\ lr_scheduler = 0
    /\ bound = {}
    /\ num_epochs \in 0..MaxEpochs
    /\ gas = DefaultGas
    /\ epoch \in 0..num_epochs
    /\ epoch_iter = epoch
    /\ gac = 0
    /\ metric = Recorded(MetricForFit(num_epochs), 0, epoch)
    /\ recon_loss = AvgMeterInit
    /\ kl_loss = AvgMeterInit
    /\ loss_data = <<>>
    /\ index = 0
    /\ grads = {}
    /\ applied = <<>>
    /\ step_log = <<>>
    /\ captured = -1
    /\ spg_calls = 0
    /\ rendered = -1
    /\ ckpt_writes = 0
    /\ draws = <<>>
    /\ phases = <<>>
    /\ primary = Absent
    /\ stamped = [e \in EpochIds |-> Absent]
    /\ ext = Absent
    /\ final = Absent
    /\ mcall = NoCall

\* metric[epoch] = metric_values
CallSetItem ==
    /\ pc = "metric_api"
    /\ mcall.op = "none"
    /\ \E e \in CallEpochs, mv \in CallMetricValues :
          LET r == MetricSetItem(metric, e, mv)
          IN /\ metric' = r.metric
             /\ mcall' = [op |-> "setitem", before |-> metric,
                          epoch |-> e, values |-> mv, raised |-> r.raised]
    /\ UNCHANGED <<env, args, run, pc, error, config, weights, optimizer,
                   lr_scheduler, bound, num_epochs, gas, epoch, epoch_iter,
                   gac, recon_loss, kl_loss, loss_data, index, grads, applied,
                   step_log, captured, spg_calls, rendered, ckpt_writes,
                   fileVars, draws, phases>>

\* metric = Metric.load(metric.state_dict(), new_num_epochs)
CallLoad ==
    /\ pc = "metric_api"
    /\ mcall.op # "load"
    /\ \E k \in 0..(MaxEpochs + 1) :
          /\ metric' = MetricLoad(MetricStateDict(metric), k)
          /\ mcall' = [op |-> "load", before |-> metric,
                       new |-> k]
    /\ UNCHANGED <<env, args, run, pc, error, config, weights, optimizer,
                   lr_scheduler, bound, num_epochs, gas, epoch, epoch_iter,
                   gac, recon_loss, kl_loss, loss_data, index, grads, applied,
                   step_log, captured, spg_calls, rendered, ckpt_writes,
                   fileVars, draws, phases>>

\* ------------------------------------------------------------------------
\* A first run that nothing interrupts: the process keeps executing until
\* it returns from main() or raises
\* ------------------------------------------------------------------------
NextFit ==
    \/ MainLoad
    \/ Compile
    \/ FitBegin
    \/ EpochStart
    \/ TrainBegin
    \/ TrainStep
    \/ TrainReturn
    \/ AfterTrain
    \/ CheckpointTrain
    \/ ValidateBegin
    \/ ValidateStep
    \/ ValidateReturn
    \/ AfterVal
    \/ CheckpointVal
    \/ FinalSave

SpecFit == Init /\ [][NextFit]_vars /\ WF_vars(NextFit)

NextMetric ==
    \/ CallSetItem
    \/ CallLoad

SpecMetric == InitMetric /\ [][NextMetric]_vars

\* ========================================================================
\* Properties
\* ========================================================================
TrainPhase == {"train_begin", "train_loop", "after_train", "ckpt_train"}
ValPhase == {"val_begin", "val_loop", "after_val", "ckpt_val"}

\* C1: in a train epoch of 10 batches with gas = 4, whatever the batch size,
\* the optimizer steps exactly after the batches 4, 8 and 10.
C1_StepsAfterBatches4_8_10 ==
    (pc = "after_train" /\ TrainLength = 10 /\ gas = 4)
        => step_log = <<4, 8, 10>>

\* C2: once the train phase of an epoch with at least one batch has
\* returned, the last batch has triggered an optimizer step and every batch
\* of the epoch has been applied by exactly one step; no batch is ever
\* applied twice, and no gradient is pending outside the batch loop (in
\* validation, at the checkpoints or at the start of the next epoch).
C2_EveryGradientAppliedOnce ==
    /\ \A i \in DOMAIN applied : applied[i] <= 1
    /\ pc \notin {"train_loop", "interrupted"} => grads = {}
    /\ (pc \in ({"after_train", "ckpt_train", "loop", "train_begin", "done"}
                   \cup ValPhase)
          /\ DOMAIN applied # {})
        => /\ \A i \in DOMAIN applied : applied[i] = 1
           /\ Len(step_log) >= 1
           /\ step_log[Len(step_log)] = TrainLength

C2_Witness ==
    /\ pc = "val_loop"
    /\ epoch = 1
    /\ TrainLength = 2
    /\ step_log = <<2>>
    /\ gas > env.train_size

\* C3: in every epoch the train phase is followed by one checkpoint written
\* before validation starts and the validation phase by a second one; each
\* stores config, encoder and decoder weights, optimizer state, scheduler
\* state, epoch index and metric state in checkpoint.pth and in its copy
\* checkpoint_<epoch>.pth.
CheckpointKeys ==
    {"model_config", "encoder_model_state_dict", "decoder_model_state_dict",
     "optimizer_state_dict", "lr_scheduler_state_dict", "epoch",
     "metric_state_dict"}

HoldsFullState(f) ==
    /\ f.state = "complete"
    /\ DOMAIN f.data = CheckpointKeys
    /\ f.data.model_config = config
    /\ f.data.encoder_model_state_dict = weights
    /\ f.data.decoder_model_state_dict = weights
    /\ f.data.optimizer_state_dict = optimizer
    /\ f.data.lr_scheduler_state_dict = lr_scheduler
    /\ f.data.epoch = epoch
    /\ f.data.metric_state_dict = metric

C3_CheckpointAfterEachPhase ==
    /\ pc \in TrainPhase => ckpt_writes = 0
    /\ pc \in ValPhase => ckpt_writes = 1
    /\ pc = "val_begin" => HoldsFullState(primary) /\ stamped[epoch] = primary
    /\ (pc = "loop" /\ epoch_iter = epoch + 1)
        => /\ ckpt_writes = 2
           /\ HoldsFullState(primary)
           /\ stamped[epoch] = primary

C3_Witness ==
    /\ pc = "loop"
    /\ epoch = 1
    /\ ckpt_writes = 2
    /\ primary.state = "complete"
    /\ primary.data.optimizer_state_dict >= 2

\* C4 as stated: in a run that started from an empty checkpoint directory
\* the only epoch-stamped files present at any point are those of the
\* current epoch and of the epoch before it.
DirStartedEmpty == run = 1 \/ args.resume = "moved"

C4_OnlyCurrentAndPrevious ==
    DirStartedEmpty =>
        \A e \in EpochIds : IsFile(stamped[e]) => e \in {epoch - 1, epoch}

\* C4 amended: in a run that started from an empty checkpoint directory no
\* epoch-stamped file older than two epochs before the current one exists,
\* and once a checkpoint() call of the current epoch has completed the only
\* ones present are those of the current epoch and of the epoch before it
\* (checkpoint_<e-2>.pth is gone after any checkpoint write at epoch e >= 2).
C4_PrunedAfterWrite ==
    DirStartedEmpty =>
        /\ \A e \in EpochIds :
              IsFile(stamped[e]) => e \in {epoch - 2, epoch - 1, epoch}
        /\ ckpt_writes >= 1 =>
              \A e \in EpochIds : IsFile(stamped[e]) => e \in {epoch - 1, epoch}

C4_Witness ==
    /\ run = 1
    /\ epoch = 2
    /\ ckpt_writes = 1
    /\ stamped[0] = Absent
    /\ IsFile(stamped[1])
    /\ IsFile(stamped[2])

\* C5: whenever the process stops, also in the middle of checkpoint(), the
\* primary checkpoint file is absent or holds a complete checkpoint, never a
\* partial one.
C5_PrimaryNeverPartial == primary.state \in {"absent", "complete"}

\* C6: right after load_checkpoint() has read a checkpoint saved at epoch e,
\* the trainer's epoch is e + 1 and its optimizer and scheduler state are
\* the saved ones; its metric state is the saved one when the configured
\* epoch count does not exceed the saved horizon (same configuration).
JustResumed ==
    /\ pc = "loop"
    /\ ckpt_writes = 0
    /\ epoch_iter = epoch
    /\ args.resume # "none"
    /\ ResumeFile.state = "complete"

C6_CheckpointRoundTrip ==
    JustResumed =>
        LET d == ResumeFile.data IN
        /\ epoch = d.epoch + 1
        /\ optimizer = d.optimizer_state_dict
        /\ lr_scheduler = d.lr_scheduler_state_dict
        /\ num_epochs <= d.metric_state_dict.num_epochs
              => metric = d.metric_state_dict

C6_Witness ==
    /\ JustResumed
    /\ ResumeFile.data.epoch = 1
    /\ ResumeFile.data.optimizer_state_dict >= 2
    /\ ResumeFile.data.lr_scheduler_state_dict = 2
    /\ num_epochs = ResumeFile.data.metric_state_dict.num_epochs
    /\ metric.mse_losses[1][1] # NaN

\* C7: Metric.load(state, new_num_epochs) of a state saved with horizon N
\* keeps the channel labels and every entry of the epochs 0..N-1; its
\* capacity is new_num_epochs with the entries N..new_num_epochs-1 unset
\* when new_num_epochs > N, and stays N otherwise.
LoadedCapacity(m, n) ==
    /\ m.num_epochs = n
    /\ \A name \in BufferNames :
          /\ DOMAIN m[name] = 0..(m.num_channels - 1)
          /\ \A c \in DOMAIN m[name] : DOMAIN m[name][c] = 0..(n - 1)

C7_LoadExtendsAndPreserves ==
    mcall.op = "load" =>
        LET sd == mcall.before
            N == mcall.before.num_epochs
        IN /\ metric.channels = sd.channels
           /\ metric.num_channels = sd.num_channels
           /\ LoadedCapacity(metric, IF mcall.new > N THEN mcall.new ELSE N)
           /\ \A name \in BufferNames : \A c \in DOMAIN sd[name] :
                 /\ \A e \in 0..(N - 1) : metric[name][c][e] = sd[name][c][e]
                 /\ \A e \in N..(mcall.new - 1) : metric[name][c][e] = NaN

C7_Witness ==
    /\ mcall.op = "load"
    /\ mcall.before.num_epochs = 2
    /\ mcall.new = 3
    /\ mcall.before.mse_losses[1][1] # NaN
    /\ metric.mse_losses[1][2] = NaN

\* C8: without a resume path, or with a resume path where no file exists,
\* loading raises nothing and fit() starts fresh: epoch 0, optimizer and
\* scheduler as compiled, and an all-unset Metric with channels train, val.
NoResumeFile == args.resume = "none" \/ ~IsFile(ResumeFile)

C8_MissingResumeStartsFresh ==
    /\ error = "LoadError" => ~NoResumeFile
    /\ (NoResumeFile /\ pc = "loop" /\ ckpt_writes = 0 /\ epoch_iter = epoch)
        => /\ error = "none"
           /\ epoch = 0
           /\ optimizer = 0
           /\ lr_scheduler = 0
           /\ metric.num_epochs = num_epochs
           /\ metric.num_channels = 2
           /\ metric.channels[0] = "train"
           /\ metric.channels[1] = "val"
           /\ \A name \in BufferNames : \A c \in 0..1 :
                 \A e \in 0..(num_epochs - 1) : metric[name][c][e] = NaN

C8_Witness ==
    /\ args.resume = "missing"
    /\ pc = "loop"
    /\ ckpt_writes = 0
    /\ num_epochs = 2
    /\ metric # NoMetric

\* C9: when the training or the validation dataset directory does not
\* exist, compile() ends the process with FileNotFoundError before binding
\* any loader, loss, optimizer or scheduler, and the run never trains,
\* never writes a checkpoint and never generates a sample.
C9_CompileFailsFast ==
    (~env.train_dir \/ ~env.val_dir) =>
        /\ pc \in {"start", "constructed", "error", "interrupted"}
        /\ pc = "error" => error = "FileNotFoundError"
        /\ bound = {}
        /\ weights = 0
        /\ optimizer = 0
        /\ step_log = <<>>
        /\ spg_calls = 0
        /\ ckpt_writes = 0
        /\ primary = Absent
        /\ \A e \in EpochIds : stamped[e] = Absent
        /\ final = Absent

C9_Witness ==
    /\ env.train_dir
    /\ ~env.val_dir
    /\ pc = "error"
    /\ error = "FileNotFoundError"
    /\ num_epochs = 2

\* C10: Metric.__setitem__ with an epoch index outside 0..num_epochs-1
\* raises nothing and leaves every buffer unchanged, whatever the values.
C10_OutOfRangeWriteIsNoOp ==
    (mcall.op = "setitem"
        /\ ~(0 <= mcall.epoch /\ mcall.epoch < mcall.before.num_epochs))
        => /\ mcall.raised = "none"
           /\ metric = mcall.before

C10_Witness ==
    /\ mcall.op = "setitem"
    /\ mcall.epoch = 0 - 1
    /\ mcall.before.num_epochs = 2
    /\ mcall.before.mse_losses[0][1] # NaN
    /\ Len(mcall.values) = 1
    /\ mcall.values[1].name = "mse_losses"
    /\ mcall.values[1].kind = "dict"
    /\ mcall.values[1].items[1][1] = "train"

\* ------------------------------------------------------------------------
\* Metric.__setitem__ on an epoch index inside 0..num_epochs-1
\* ------------------------------------------------------------------------
SetItemInRange ==
    /\ mcall.op = "setitem"
    /\ 0 <= mcall.epoch
    /\ mcall.epoch < mcall.before.num_epochs

\* the entry is a per-channel dict for a tracked metric
TrackedDict(ent) == ent.kind = "dict" /\ ent.name \in BufferNames

\* the channel label the (single-item) dict entry is written under
EntryChannel(ent) == ent.items[1][1]
EntryValue(ent) == ent.items[1][2]

LabelKnown(label) ==
    \E c \in DOMAIN mcall.before.channels : mcall.before.channels[c] = label

\* C11: in a call of Metric.__setitem__ with an in-range epoch, an entry
\* whose name is not a tracked metric raises nothing and writes nothing,
\* and every entry of the call with a tracked name and a known channel is
\* still written.
C11_UnknownNameDropped ==
    (/\ SetItemInRange
     /\ \A k \in DOMAIN mcall.values :
           /\ mcall.values[k].kind = "dict"
           /\ TrackedDict(mcall.values[k])
                 => LabelKnown(EntryChannel(mcall.values[k])))
        => /\ mcall.raised = "none"
           /\ \A name \in BufferNames :
              \A c \in DOMAIN mcall.before.channels :
              \A e \in 0..(mcall.before.num_epochs - 1) :
                 LET hits == {k \in DOMAIN mcall.values :
                                /\ mcall.values[k].name = name
                                /\ EntryChannel(mcall.values[k])
                                      = mcall.before.channels[c]
                                /\ e = mcall.epoch}
                 IN IF hits = {}
                    THEN metric[name][c][e] = mcall.before[name][c][e]
                    ELSE \E k \in hits :
                            metric[name][c][e] = EntryValue(mcall.values[k])

\* C12: writing a value for a tracked metric under a channel label the
\* Metric does not know raises an error and the write is not made; a label
\* of the channel list addresses the row at the label's index.
C12_UnknownChannelRaises ==
    SetItemInRange =>
        /\ (\E k \in DOMAIN mcall.values :
                /\ TrackedDict(mcall.values[k])
                /\ ~LabelKnown(EntryChannel(mcall.values[k])))
              => mcall.raised # "none"
        /\ (/\ Len(mcall.values) >= 1
            /\ TrackedDict(mcall.values[1])
            /\ ~LabelKnown(EntryChannel(mcall.values[1])))
              => /\ mcall.raised = "ValueError"
                 /\ metric = mcall.before
        /\ (/\ Len(mcall.values) = 1
            /\ TrackedDict(mcall.values[1])
            /\ LabelKnown(EntryChannel(mcall.values[1])))
              => /\ mcall.raised = "none"
                 /\ \E c \in DOMAIN mcall.before.channels :
                       /\ mcall.before.channels[c]
                             = EntryChannel(mcall.values[1])
                       /\ metric = [mcall.before EXCEPT
                             ![mcall.values[1].name][c][mcall.epoch]
                                 = EntryValue(mcall.values[1])]

C12_Witness ==
    /\ SetItemInRange
    /\ mcall.before.num_epochs = 2
    /\ Len(mcall.values) = 1
    /\ mcall.values[1].name = "kl_divergence_losses"
    /\ mcall.values[1].kind = "dict"
    /\ EntryChannel(mcall.values[1]) = "test"
    /\ mcall.raised = "ValueError"

\* ------------------------------------------------------------------------
\* AvgMeter
\* ------------------------------------------------------------------------
RECURSIVE SumSeq(_)
SumSeq(q) == IF q = <<>> THEN 0 ELSE q[1] + SumSeq(Tail(q))

\* the fraction a equals n / d
IsFraction(a, n, d) == a.d # 0 /\ a.n * d = n * a.d

\* the meter came from AvgMeter() or from reset()
FreshOrReset ==
    \/ mcall.origin = "reset"
    \/ mcall.origin = "new" /\ mcall.val = 0

\* C13: after the values v1..vn (n >= 1) are added to a meter that is
\* fresh (AvgMeter()) or was reset, count = n and avg() = (v1 + ... + vn)/n;
\* right after reset() count is 0 and avg() is 0.0 whatever was added
\* before.
C13_AvgMeterAverages ==
    mcall.op \in {"new", "add", "reset"} =>
        /\ (FreshOrReset /\ Len(mcall.added) >= 1)
              => /\ mcall.meter.count = Len(mcall.added)
                 /\ IsFraction(AvgMeterAvg(mcall.meter),
                               SumSeq(mcall.added), Len(mcall.added))
        /\ mcall.op = "reset"
              => /\ mcall.meter.count = 0
                 /\ AvgMeterAvg(mcall.meter) = Zero

C13_Witness ==
    /\ mcall.op = "add"
    /\ mcall.origin = "reset"
    /\ mcall.before.count = 2
    /\ mcall.before.total = 4
    /\ mcall.added = <<3, 0 - 2, 1>>
    /\ AvgMeterAvg(mcall.meter) = Rat(2, 3)

\* ------------------------------------------------------------------------
\* The end of fit()
\* ------------------------------------------------------------------------
LastPhase == phases[Len(phases)]

\* a model directory holding the weights file and the config file of the
\* running process
SavedModelDir(d) == d = [weights |-> weights, config |-> config]

FinalSaved ==
    /\ final.state = "complete"
    /\ SavedModelDir(final.vae_encoder)
    /\ SavedModelDir(final.vae_decoder)

\* the process is done right after the validation checkpoint of its last
\* epoch, or right after a resume that left no epoch to run
DoneAtTheEnd ==
    /\ epoch_iter >= num_epochs
    /\ \/ /\ phases = <<<<"fit", epoch>>>>
          /\ epoch >= num_epochs
       \/ /\ LastPhase = <<"val_end", num_epochs - 1>>
          /\ ckpt_writes = 2
          /\ primary = Complete(CheckpointData)

\* C14: when the epoch count is reached (after the validation checkpoint
\* of epoch num_epochs - 1, or at once when a resume leaves no epoch to
\* run) fit() has saved the final encoder and decoder to two directories,
\* each holding the weights and the process's model config; the final
\* directories are written at no other point and the process writes no
\* checkpoint after that save.
C14_TerminalSave ==
    /\ [](pc = "done" => FinalSaved /\ DoneAtTheEnd)
    /\ [][/\ final' # final => pc' = "done" /\ pc = "loop"
          /\ (pc = "done" /\ pc' # "start")
                => UNCHANGED <<primary, stamped, ext, final>>]_vars

C14_Witness ==
    /\ pc = "done"
    /\ run = 2
    /\ num_epochs = 1
    /\ phases = <<<<"fit", 1>>>>
    /\ primary.state = "complete"
    /\ primary.data.epoch = 0
    /\ FinalSaved

\* ------------------------------------------------------------------------
\* Encoder and Decoder shapes
\* ------------------------------------------------------------------------
\* C15: for an input [N, C, H, W] with C the configured image channels,
\* H and W divisible by 8 and an even zch, the encoder raises nothing and
\* returns a latent [N, zch/2, H/8, W/8] with mean and log_variance of
\* that same shape, and the decoder maps the latent back to [N, C, H, W].
C15_ShapesRoundTrip ==
    (/\ mcall.op \in {"encoded", "decoded"}
     /\ mcall.x.c = mcall.cfg.img_channels
     /\ mcall.x.h % 8 = 0
     /\ mcall.x.w % 8 = 0
     /\ mcall.cfg.zch % 2 = 0)
        => LET z == Shape(mcall.x.n, mcall.cfg.zch \div 2,
                          mcall.x.h \div 8, mcall.x.w \div 8)
           IN /\ ~mcall.enc.raised
              /\ mcall.enc.out = z
              /\ mcall.enc.mean = z
              /\ mcall.enc.log_variance = z
              /\ mcall.op = "decoded" => mcall.dec = mcall.x

C15_Witness ==
    /\ mcall.op = "decoded"
    /\ mcall.cfg = [img_channels |-> 3, zch |-> 4]
    /\ mcall.x = Shape(2, 3, 16, 8)
    /\ mcall.enc.out = Shape(2, 2, 2, 1)
    /\ mcall.dec = Shape(2, 3, 16, 8)

\* ------------------------------------------------------------------------
\* Clamp and reparameterization
\* ------------------------------------------------------------------------
Sampled == mcall.op \in {"sampled", "decoded"}

\* C16: the log_variance the encoder returns lies in [-30, 20]: a raw
\* value inside the interval is unchanged, one below becomes -30, one
\* above becomes 20; the sample is drawn with that clamped value.
C16_LogVarianceClamped ==
    Sampled =>
        /\ 0 - 30 <= mcall.log_variance
        /\ mcall.log_variance <= 20
        /\ (0 - 30 <= mcall.raw /\ mcall.raw <= 20)
              => mcall.log_variance = mcall.raw
        /\ mcall.raw < 0 - 30 => mcall.log_variance = 0 - 30
        /\ mcall.raw > 20 => mcall.log_variance = 20
        /\ mcall.out.k = "fin"
        /\ (mcall.eps # 0 /\ mcall.log_variance # 0)
              => mcall.out.p = mcall.log_variance

C16_Witness ==
    /\ mcall.op = "sampled"
    /\ mcall.raw = 0 - 200
    /\ mcall.log_variance = 0 - 30
    /\ mcall.eps = 1
    /\ mcall.out.p = 0 - 30

\* C17: the returned sample is (mean + exp(0.5 * log_variance) * eps)
\* * mult_factor; with eps = 0 it is exactly mean * mult_factor; the
\* decoder's division by the same mult_factor gives back
\* mean + exp(0.5 * log_variance) * eps.
C17_Reparameterization ==
    Sampled =>
        LET f == mcall.mult_factor
        IN /\ mcall.out = Real(mcall.mean * f.n, mcall.eps * f.n, f.d,
                               mcall.log_variance)
           /\ mcall.eps = 0 =>
                 /\ mcall.out.bn = 0
                 /\ mcall.out.an * f.d = mcall.mean * f.n * mcall.out.d
           /\ mcall.op = "decoded" =>
                 mcall.dec = Real(mcall.mean, mcall.eps, 1,
                                  mcall.log_variance)

C17_Witness ==
    /\ mcall.op = "decoded"
    /\ mcall.mult_factor = DefaultMultFactor
    /\ mcall.mean = 2
    /\ mcall.eps = 0 - 1
    /\ mcall.raw = 200
    /\ mcall.out = [k |-> "fin", an |-> 7286, bn |-> 0 - 3643, d |-> 20000,
                    p |-> 20]
    /\ mcall.dec = [k |-> "fin", an |-> 2, bn |-> 0 - 1, d |-> 1, p |-> 20]

\* ------------------------------------------------------------------------
\* KL-divergence loss
\* ------------------------------------------------------------------------
\* the integer part of e^p for p in 0..20
ExpFloor ==
    << 1, 2, 7, 20, 54, 148, 403, 1096, 2980, 8103, 22026, 59874, 162754,
       442413, 1202604, 3269017, 8886110, 24154952, 65659969, 178482300,
       485165195 >>

\* integer bounds of e^p for p <= 20: ExpLower(p) <= e^p <= ExpUpper(p)
ExpLower(p) == IF p < 0 THEN 0 ELSE ExpFloor[p + 1]
ExpUpper(p) == IF p <= 0 THEN 1 ELSE ExpFloor[p + 1] + 1

RECURSIVE LowerSum(_)
LowerSum(exps) ==
    IF exps = <<>> THEN 0 ELSE ExpLower(exps[1]) + LowerSum(Tail(exps))

RECURSIVE UpperSum(_)
UpperSum(exps) ==
    IF exps = <<>> THEN 0 ELSE ExpUpper(exps[1]) + UpperSum(Tail(exps))

\* the loss is a number >= 0 (inf included)
NonNegative(v) ==
    \/ v.k = "inf"
    \/ /\ v.k = "fin"
       /\ IF v.b >= 0 THEN v.a + v.b * LowerSum(v.exps) >= 0
          ELSE v.a + v.b * UpperSum(v.exps) >= 0

KlCalled == mcall.op = "kl_div"

KlElemIds == DOMAIN mcall.elems

\* the loss is beta * (-0.5) * sum(1 + log_variance - mean^2
\* - exp(log_variance)) whenever every exponential is finite
KlFormula ==
    (\A i \in KlElemIds : mcall.elems[i].log_variance <= 88)
        => LET n == Len(mcall.elems)
               consts == [i \in 1..n |->
                            1 + mcall.elems[i].log_variance
                              - mcall.elems[i].mean * mcall.elems[i].mean]
               ones == Cardinality({i \in KlElemIds :
                            \/ mcall.elems[i].log_variance = 0})
               terms == SelectSeq([i \in 1..n |->
                                      mcall.elems[i].log_variance],
                                  LAMBDA p : p # 0 /\ p >= 0 - 103)
           IN mcall.output
                = ExpSum(0 - (mcall.beta.n * (SumSeq(consts) - ones)),
                         mcall.beta.n, 2 * mcall.beta.d, terms)

KlZeroAtOrigin ==
    (\A i \in KlElemIds :
        mcall.elems[i].mean = 0 /\ mcall.elems[i].log_variance = 0)
        => mcall.output = ExpSum(0, 0, 1, <<>>)

KlFiniteInClampRange ==
    (\A i \in KlElemIds :
        /\ 0 - 30 <= mcall.elems[i].log_variance
        /\ mcall.elems[i].log_variance <= 20)
        => mcall.output.k = "fin"

PhaseKinds == <<"train_begin", "train_end", "val_begin", "val_end">>

\* the history of a fit() that starts at epoch s and runs to epoch n - 1
ExpectedPhases(s, n) ==
    LET epochs == IF n > s THEN n - s ELSE 0
    IN [i \in 1..(1 + 4 * epochs) |->
          IF i = 1 THEN <<"fit", s>>
          ELSE <<PhaseKinds[((i - 2) % 4) + 1], s + ((i - 2) \div 4)>>]

IsPrefix(p, q) ==
    /\ Len(p) <= Len(q)
    /\ \A i \in 1..Len(p) : p[i] = q[i]

\* C19: a fit() that starts at epoch s (0 when fresh, saved epoch + 1 on
\* resume) goes through the epochs s, s+1, ..., num_epochs-1 in this order,
\* each once, each as one train phase that ends before its one validation
\* phase begins, the next epoch's train phase beginning only after that
\* validation phase has ended; done is reached only after the last of
\* them.
C19_EpochsInOrder ==
    /\ phases # <<>> =>
          /\ phases[1][1] = "fit"
          /\ IsPrefix(phases, ExpectedPhases(phases[1][2], num_epochs))
    /\ (pc = "loop" /\ Len(phases) = 1) =>
          phases[1][2] = IF args.resume # "none" /\ IsFile(ResumeFile)
                         THEN ResumeFile.data.epoch + 1
                         ELSE 0
    /\ pc = "done" =>
          /\ phases # <<>>
          /\ phases = ExpectedPhases(phases[1][2], num_epochs)

C19_Witness ==
    /\ pc = "done"
    /\ run = 2
    /\ num_epochs = 3
    /\ phases = ExpectedPhases(1, 3)
    /\ Len(phases) = 9

\* ------------------------------------------------------------------------
\* validate() and the training state
\* ------------------------------------------------------------------------
\* a step of validate(): from its entry to its return or its exception
ValidationStep ==
    /\ pc \in {"val_begin", "val_loop"}
    /\ pc' \in {"val_loop", "after_val", "error"}

\* C20: no step of a validation phase changes the model weights, the
\* optimizer state, the scheduler state or the gradient-accumulation
\* counter, nor anything but the two loss accumulators (reset on entry,
\* then added to once per batch), the phase's loss data and batch index,
\* and the sample image, which is generated once at the end.
C20_ValidationKeepsTrainingState ==
    /\ [][ValidationStep =>
            /\ UNCHANGED <<weights, optimizer, lr_scheduler, gac>>
            /\ UNCHANGED <<env, args, run, config, bound, num_epochs, gas,
                           epoch, epoch_iter, metric, grads, applied,
                           step_log, ckpt_writes, primary, stamped, ext,
                           final>>
            /\ pc = "val_begin" =>
                  recon_loss'.count = 0 /\ kl_loss'.count = 0
            /\ (pc = "val_loop" /\ pc' = "val_loop") =>
                  /\ recon_loss'.count = recon_loss.count + 1
                  /\ kl_loss'.count = kl_loss.count + 1
                  /\ spg_calls' = 0
            /\ pc' = "after_val" =>
                  /\ spg_calls' = 1
                  /\ UNCHANGED <<recon_loss, kl_loss>>]_vars
    /\ [](pc = "after_val" => recon_loss.count = ValLength)

C20_Witness ==
    /\ pc = "after_val"
    /\ epoch = 1
    /\ index = 2
    /\ weights >= 2
    /\ optimizer = weights
    /\ lr_scheduler = 2
    /\ gac = 0
    /\ recon_loss.count = 2
    /\ spg_calls = 1

\* ------------------------------------------------------------------------
\* The sample of a validation phase
\* ------------------------------------------------------------------------
\* index of the first batch whose draw was below 0.3, -1 when there is none
FirstBelow(d) ==
    IF \E i \in DOMAIN d : d[i]
    THEN (CHOOSE i \in DOMAIN d : d[i] /\ \A j \in 1..(i - 1) : ~d[j]) - 1
    ELSE 0 - 1

\* C21: in a validation phase the reference/reconstruction pair is the one
\* of the first batch whose draw was below 0.3 and no later batch replaces
\* it; spg.generate is not called inside the batch loop and is called once
\* when the phase ends, on the last batch processed, whichever batch was
\* captured and whether or not one was.
C21_SampleOfLastBatch ==
    /\ pc \in {"val_loop", "after_val"} =>
          /\ Len(draws) = index
          /\ captured = FirstBelow(draws)
    /\ pc = "val_loop" => spg_calls = 0
    /\ pc = "after_val" =>
          /\ spg_calls = 1
          /\ index = ValLength
          /\ rendered = ValLength - 1

C21_Witness ==
    /\ pc = "after_val"
    /\ draws = <<TRUE, TRUE>>
    /\ captured = 0
    /\ rendered = 1
    /\ spg_calls = 1

\* ------------------------------------------------------------------------
\* The cells of the metric buffers in a fresh run
\* ------------------------------------------------------------------------
FreshRunOnData ==
    /\ run = 1
    /\ env.train_size >= 1
    /\ env.val_size >= 1

Running ==
    {"loop", "train_begin", "train_loop", "after_train", "ckpt_train",
     "val_begin", "val_loop", "after_val", "ckpt_val", "done"}

EpochFinished == pc \in {"loop", "done"} /\ ckpt_writes = 2

\* the train phase (channel 0) or the validation phase (channel 1) of
\* epoch e has handed its losses to the metric
PhaseRecorded(c, e) ==
    \/ e < epoch
    \/ /\ e = epoch
       /\ \/ EpochFinished
          \/ pc = "ckpt_val"
          \/ c = 0 /\ pc \in {"ckpt_train", "val_begin", "val_loop",
                                "after_val"}

MetricCells ==
    BufferNames \X (0..1) \X (0..(num_epochs - 1))

\* C22: the buffers of the metric start with every cell unset; in a fresh
\* run on non-empty datasets a cell (metric, channel, epoch) is written
\* once, while unset, by the phase of that channel in that epoch, so a cell
\* is set exactly when that phase is over: after the validation phase of
\* epoch e all cells of the epochs 0..e are set and all cells of later
\* epochs are unset.
C22_CellsWrittenOnce ==
    /\ [](FreshRunOnData /\ pc \in Running =>
            \A cell \in MetricCells :
               (metric[cell[1]][cell[2]][cell[3]] # NaN)
                  <=> PhaseRecorded(cell[2], cell[3]))
    /\ [][(FreshRunOnData /\ pc \in Running /\ pc' \in Running) =>
            \A cell \in MetricCells :
               metric'[cell[1]][cell[2]][cell[3]]
                     # metric[cell[1]][cell[2]][cell[3]]
                  => /\ metric[cell[1]][cell[2]][cell[3]] = NaN
                     /\ cell[3] = epoch
                     /\ pc = IF cell[2] = 0 THEN "after_train"
                             ELSE "after_val"]_vars

C22_Witness ==
    /\ FreshRunOnData
    /\ pc = "ckpt_val"
    /\ num_epochs = 3
    /\ epoch = 1
    /\ \A name \in BufferNames, c \in 0..1 :
          /\ metric[name][c][0] # NaN
          /\ metric[name][c][1] # NaN
          /\ metric[name][c][2] = NaN

\* ------------------------------------------------------------------------
\* The gradient-accumulation counter
\* ------------------------------------------------------------------------
BetweenEpochs ==
    {"after_train", "ckpt_train", "val_begin", "val_loop", "after_val",
     "ckpt_val", "loop", "train_begin", "done"}

\* C23: with gas >= 1 the accumulation counter gac is in 0..(gas - 1)
\* after every train_step, it is 0 right after every optimizer step, and
\* it is 0 from the end of a train phase to the first batch of the next
\* one, so that no count is carried from one epoch to the next.
C23_CounterBelowGas ==
    /\ [](pc \in (BetweenEpochs \cup {"train_loop"}) =>
            /\ gas >= 1
            /\ gac >= 0
            /\ gac < gas)
    /\ [](pc \in BetweenEpochs => gac = 0)
    /\ [][optimizer' = optimizer + 1 => gac' = 0]_vars
    /\ [][(pc = "train_loop" /\ index' = index + 1
             /\ optimizer' = optimizer)
            => /\ gac' = gac + BatchLen(env.train_size, args.batch_size,
                                        index)
               /\ gac' < gas]_vars

C23_Witness ==
    /\ pc = "train_loop"
    /\ epoch = 1
    /\ index = 1
    /\ gas = 3
    /\ gac = 1
    /\ optimizer = 1

\* ------------------------------------------------------------------------
\* The learning-rate scheduler and the epoch index
\* ------------------------------------------------------------------------
\* C24: at the start of the train phase of epoch e the learning-rate
\* scheduler has been stepped exactly e times, in a fresh run and in a run
\* resumed from a checkpoint of this trainer, whether written after a
\* train phase or after a validation phase.
C24_SchedulerFollowsEpoch ==
    pc = "train_begin" => lr_scheduler = epoch

C24_Witness ==
    /\ pc = "train_begin"
    /\ run = 2
    /\ ResumeUsable
    /\ ResumeFile.data.epoch = 0
    /\ ResumeFile.data.metric_state_dict["mse_losses"][1][0] = NaN
    /\ epoch = 1
    /\ lr_scheduler = 1

\* ------------------------------------------------------------------------
\* Validation phases across interruptions and resumes
\* ------------------------------------------------------------------------
ValidationRecorded(e) ==
    \A name \in BufferNames : metric[name][1][e] # NaN

\* C25: in runs that may be interrupted at any point and resumed from the
\* latest primary checkpoint, when training enters the train phase of an
\* epoch, every earlier epoch has its val metric cells set: no resume
\* skips the validation phase of an epoch.
C25_NoValidationLost ==
    pc = "train_begin" => \A e \in 0..(epoch - 1) : ValidationRecorded(e)

\* ------------------------------------------------------------------------
\* Termination of an uninterrupted fit()
\* ------------------------------------------------------------------------
\* C26: whatever the sizes of the training and validation datasets, empty
\* ones included, and whatever the number of epochs, an uninterrupted
\* fit() runs its remaining epochs without raising and reaches the final
\* save of the encoder and the decoder.
C26_FitReachesDone ==
    (pc = "ready") ~> (pc = "done" /\ error = "none" /\ FinalSaved)

====
